---- MODULE Spec2Model ----
(***************************************************************************)
(* Model of time_data.hpp (rng::time): the delay/second conversions and    *)
(* get_time_data, computed in IEEE-754 binary64 (fp64) arithmetic with     *)
(* round-to-nearest-even, and in unsigned 32-bit arithmetic for delays.    *)
(*                                                                         *)
(* TLC's integers are 32 bits wide, so a ui32 and the 53-bit significand   *)
(* of an fp64 are held as natural numbers in base 2^15, least significant  *)
(* digit first, without high zero digits (the empty sequence is 0).        *)
(***************************************************************************)
EXTENDS Integers, Sequences, FiniteSets, TLC

----------------------------------------------------------------------------
(* Natural numbers of any size.                                            *)

DigitBits == 14 + 1
Base == 2^DigitBits

RECURSIVE BTrim(_)
BTrim(a) ==
    IF a = <<>> THEN <<>>
    ELSE IF a[Len(a)] = 0 THEN BTrim(SubSeq(a, 1, Len(a) - 1))
    ELSE a

RECURSIVE BFromNat(_)
BFromNat(n) ==
    IF n = 0 THEN <<>> ELSE <<n % Base>> \o BFromNat(n \div Base)

RECURSIVE BToNat(_)
BToNat(a) ==
    IF a = <<>> THEN 0 ELSE Head(a) + Base * BToNat(Tail(a))

RECURSIVE BAddC(_, _, _)
BAddC(a, b, c) ==
    IF a = <<>> /\ b = <<>> THEN (IF c = 0 THEN <<>> ELSE <<c>>)
    ELSE LET x == IF a = <<>> THEN 0 ELSE Head(a)
             y == IF b = <<>> THEN 0 ELSE Head(b)
             s == x + y + c
         IN  <<s % Base>> \o BAddC(IF a = <<>> THEN <<>> ELSE Tail(a),
                                   IF b = <<>> THEN <<>> ELSE Tail(b),
                                   s \div Base)

BAdd(a, b) == BAddC(a, b, 0)

\* a - b - c for a >= b + c, high zero digits kept
RECURSIVE BSubC(_, _, _)
BSubC(a, b, c) ==
    IF a = <<>> THEN <<>>
    ELSE LET y == IF b = <<>> THEN 0 ELSE Head(b)
             s == Head(a) - y - c
         IN  <<s % Base>> \o BSubC(Tail(a),
                                   IF b = <<>> THEN <<>> ELSE Tail(b),
                                   IF s < 0 THEN 1 ELSE 0)

BSub(a, b) == BTrim(BSubC(a, b, 0))

\* -1, 0, 1 as a < b, a = b, a > b
RECURSIVE BCmpFrom(_, _, _)
BCmpFrom(a, b, i) ==
    IF i = 0 THEN 0
    ELSE IF a[i] < b[i] THEN -1
    ELSE IF a[i] > b[i] THEN 1
    ELSE BCmpFrom(a, b, i - 1)

BCmp(a, b) ==
    IF Len(a) < Len(b) THEN -1
    ELSE IF Len(a) > Len(b) THEN 1
    ELSE BCmpFrom(a, b, Len(a))

\* a * m + c for a digit m and a carry c < Base
RECURSIVE BMulSmallC(_, _, _)
BMulSmallC(a, m, c) ==
    IF a = <<>> THEN (IF c = 0 THEN <<>> ELSE <<c>>)
    ELSE LET s == Head(a) * m + c
         IN  <<s % Base>> \o BMulSmallC(Tail(a), m, s \div Base)

BMulSmall(a, m) == IF m = 0 THEN <<>> ELSE BMulSmallC(a, m, 0)

RECURSIVE BMul(_, _)
BMul(a, b) ==
    IF a = <<>> \/ b = <<>> THEN <<>>
    ELSE BAdd(BMulSmall(a, Head(b)),
              LET t == BMul(a, Tail(b)) IN IF t = <<>> THEN <<>> ELSE <<0>> \o t)

\* quotient and remainder of a by a digit m > 0, from the high digit down
RECURSIVE BDivSmallFrom(_, _, _, _)
BDivSmallFrom(a, m, i, r) ==
    IF i = 0 THEN <<<<>>, r>>
    ELSE LET cur  == r * Base + a[i]
             rest == BDivSmallFrom(a, m, i - 1, cur % m)
         IN  <<rest[1] \o <<cur \div m>>, rest[2]>>

BDivSmall(a, m) ==
    LET qr == BDivSmallFrom(a, m, Len(a), 0) IN <<BTrim(qr[1]), qr[2]>>

RECURSIVE BZeros(_)
BZeros(n) == IF n = 0 THEN <<>> ELSE <<0>> \o BZeros(n - 1)

\* a * 2^k
BShl(a, k) ==
    IF a = <<>> THEN <<>>
    ELSE BZeros(k \div DigitBits) \o BMulSmall(a, 2^(k % DigitBits))

\* floor(a / 2^k)
BShr(a, k) ==
    IF Len(a) <= k \div DigitBits THEN <<>>
    ELSE BDivSmall(SubSeq(a, (k \div DigitBits) + 1, Len(a)), 2^(k % DigitBits))[1]

RECURSIVE NatBitLen(_)
NatBitLen(n) == IF n = 0 THEN 0 ELSE 1 + NatBitLen(n \div 2)

BBitLen(a) ==
    IF a = <<>> THEN 0 ELSE DigitBits * (Len(a) - 1) + NatBitLen(a[Len(a)])

BIsOdd(a) == a # <<>> /\ a[1] % 2 = 1

\* One quotient digit of r by b, where b's high digit is at least Base / 2 and
\* r < b * Base: the estimate from the two high digits is at most 2 too large.
RECURSIVE BDigitDown(_, _, _)
BDigitDown(r, b, q) ==
    IF BCmp(BMulSmall(b, q), r) > 0 THEN BDigitDown(r, b, q - 1) ELSE q

BQuotDigit(r, b) ==
    LET n    == Len(b)
        hi   == IF Len(r) > n THEN r[n + 1] ELSE 0
        lo   == IF Len(r) >= n THEN r[n] ELSE 0
        qhat == (hi * Base + lo) \div b[n]
    IN  BDigitDown(r, b, IF qhat > Base - 1 THEN Base - 1 ELSE qhat)

\* long division of the digits a[1..i] below the running remainder r
RECURSIVE BLongDiv(_, _, _, _)
BLongDiv(a, b, i, r) ==
    IF i = 0 THEN <<<<>>, r>>
    ELSE LET cur  == BTrim(<<a[i]>> \o r)
             q    == BQuotDigit(cur, b)
             rest == BLongDiv(a, b, i - 1, BSub(cur, BMulSmall(b, q)))
         IN  <<rest[1] \o <<q>>, rest[2]>>

\* <<floor(a / b), a mod b>> for b > 0
BDivMod(a, b) ==
    LET s  == DigitBits - NatBitLen(b[Len(b)])
        qr == BLongDiv(BShl(a, s), BShl(b, s), Len(BShl(a, s)), <<>>)
    IN  <<BTrim(qr[1]), BShr(qr[2], s)>>

----------------------------------------------------------------------------
(* Dyadic rationals (-1)^s * m * 2^e, exact, and fp64: the dyadic rationals *)
(* with a 53-bit m (or m = 0, e = 0), reached by rounding to nearest, ties  *)
(* to even.  Every value time_data.hpp computes is far inside the normal    *)
(* range of fp64 (see TypeOK), so no exponent limit is modelled.            *)

MantBits == 52 + 1

Dy(s, m, e) == [s |-> s, m |-> m, e |-> e]

DFromNat(n) == Dy(0, BFromNat(n), 0)

DIsZero(x) == x.m = <<>>

DNeg(x) == Dy(1 - x.s, x.m, x.e)

DAdd(x, y) ==
    LET e  == IF x.e < y.e THEN x.e ELSE y.e
        nx == BShl(x.m, x.e - e)
        ny == BShl(y.m, y.e - e)
    IN  IF x.s = y.s THEN Dy(x.s, BAdd(nx, ny), e)
        ELSE CASE BCmp(nx, ny) = 1  -> Dy(x.s, BSub(nx, ny), e)
               [] BCmp(nx, ny) = -1 -> Dy(y.s, BSub(ny, nx), e)
               [] OTHER             -> Dy(0, <<>>, e)

DSub(x, y) == DAdd(x, DNeg(y))

DMul(x, y) == Dy((x.s + y.s) % 2, BMul(x.m, y.m), x.e + y.e)

\* -1, 0, 1 as x < y, x = y, x > y (-0 = +0)
DCmp(x, y) ==
    LET d == DSub(x, y)
    IN  IF DIsZero(d) THEN 0 ELSE IF d.s = 1 THEN -1 ELSE 1

DAbs(x) == Dy(0, x.m, x.e)

\* round to nearest, ties to even
FRound(x) ==
    LET len == BBitLen(x.m)
        k   == len - MantBits
    IN  IF len = 0 THEN Dy(x.s, <<>>, 0)
        ELSE IF k <= 0 THEN Dy(x.s, BShl(x.m, -k), x.e + k)
        ELSE LET q    == BShr(x.m, k)
                 rem  == BSub(x.m, BShl(q, k))
                 c    == BCmp(rem, BShl(<<1>>, k - 1))
                 up   == c = 1 \/ (c = 0 /\ BIsOdd(q))
                 q1   == IF up THEN BAdd(q, <<1>>) ELSE q
             IN  IF BBitLen(q1) > MantBits
                 THEN Dy(x.s, BShr(q1, 1), x.e + k + 1)
                 ELSE Dy(x.s, q1, x.e + k)

IsFp64(x) ==
    /\ x.s \in {0, 1}
    /\ IF x.m = <<>> THEN x.e = 0
       ELSE BBitLen(x.m) = MantBits /\ x.e >= -1022 - 52 /\ x.e <= 1023 - 52

\* static_cast<fp64> of an unsigned integer
FFromUi(n) == FRound(Dy(0, n, 0))

FAdd(x, y) ==
    IF DIsZero(x) /\ DIsZero(y)
    THEN Dy(IF x.s = 1 /\ y.s = 1 THEN 1 ELSE 0, <<>>, 0)
    ELSE FRound(DAdd(x, y))

FSub(x, y) == FAdd(x, DNeg(y))

FMul(x, y) == FRound(DMul(x, y))

\* x / y for y # 0: the quotient to 55 bits or more, and a sticky bit
FDiv(x, y) ==
    IF DIsZero(x) THEN Dy((x.s + y.s) % 2, <<>>, 0)
    ELSE LET qr == BDivMod(BShl(x.m, MantBits + 2), y.m)
             n  == BAdd(BShl(qr[1], 1), IF qr[2] = <<>> THEN <<>> ELSE <<1>>)
         IN  FRound(Dy((x.s + y.s) % 2, n, x.e - y.e - MantBits - 3))

\* std::fmod(x, y) for y # 0: x - trunc(x / y) * y, exact, with the sign of x
FMod(x, y) ==
    IF DIsZero(x) THEN x
    ELSE LET e  == IF x.e < y.e THEN x.e ELSE y.e
             nx == BShl(x.m, x.e - e)
             ny == BShl(y.m, y.e - e)
         IN  FRound(Dy(x.s, BDivMod(nx, ny)[2], e))

FLt(x, y) == DCmp(x, y) = -1

\* the integer part of |x| (truncation toward zero)
FTrunc(x) == IF x.e >= 0 THEN BShl(x.m, x.e) ELSE BShr(x.m, -x.e)

\* a decimal literal p / q of the source, as the compiler rounds it
FLit(p, q) == FDiv(FFromUi(BFromNat(p)), FFromUi(BFromNat(q)))

----------------------------------------------------------------------------
(* time_data.hpp                                                           *)

Zero == Dy(0, <<>>, 0)

S_PER_MIN == FLit(60, 1)

\* faulty variant: the nominal 60 frames per second
NominalFps == FLit(60, 1)

NDS_FPS == FLit(598261, 10000)

MIN_BOOT_TIME == FLit(14, 1)

\* the literal 0.2 added to the boot time
BootOverhead == FLit(2, 10)

\* ui32: the naturals below 2^32
Ui32Modulus == BShl(<<1>>, 32)

Ui32Max == BSub(Ui32Modulus, <<1>>)

IsUi32(n) == n = BTrim(n) /\ BCmp(n, Ui32Modulus) = -1

\* a - b on ui32 operands: the difference modulo 2^32
Ui32Sub(a, b) ==
    IF BCmp(a, b) >= 0 THEN BSub(a, b) ELSE BSub(BAdd(a, Ui32Modulus), b)

\* static_cast to an unsigned type of `bits` bits: the truncated value when it
\* is representable; otherwise the behaviour is undefined and any value of the
\* type may come out (for 32 bits the two extreme values stand for all)
CastUnsigned(x, bits) ==
    LET t == FTrunc(x)
    IN  IF (x.s = 0 \/ t = <<>>) /\ BBitLen(t) <= bits THEN {t}
        ELSE IF bits <= DigitBits THEN {BFromNat(v) : v \in 0..(2^bits - 1)}
        ELSE {<<>>, BSub(BShl(<<1>>, bits), <<1>>)}

delay_to_second(t_delay) == FDiv(FFromUi(t_delay), NDS_FPS)

\* faulty variant: the wrong constant in the product
SecondToDelayPerMinute(t_second) == CastUnsigned(FMul(t_second, S_PER_MIN), 32)

second_to_delay(t_second) == CastUnsigned(FMul(t_second, NDS_FPS), 32)

\* faulty variant: the difference of the delays taken as a signed number
LoadTimeSigned(calibrated_delay, calibrated_second, target_delay) ==
    FAdd(IF BCmp(target_delay, calibrated_delay) >= 0
         THEN delay_to_second(BSub(target_delay, calibrated_delay))
         ELSE DNeg(delay_to_second(BSub(calibrated_delay, target_delay))),
         FFromUi(BFromNat(calibrated_second)))

\* line 106
LoadTime(calibrated_delay, calibrated_second, target_delay) ==
    FAdd(delay_to_second(Ui32Sub(target_delay, calibrated_delay)),
         FFromUi(BFromNat(calibrated_second)))

\* ASSERT(time_data.load_time > 0.0) expands to
\* if(!time_data.load_time > 0.0) { __debugbreak(); }: the ! applies to
\* load_time alone, and the resulting bool (0 or 1) is compared with 0.0
LogicalNot(x) == IF DIsZero(x) THEN 1 ELSE 0

\* faulty variant: the macro without its negation, if(exp)
AssertBreaksOnPositive(load_time) == FLt(Zero, load_time)

AssertBreaks(load_time) == FLt(Zero, FFromUi(BFromNat(LogicalNot(load_time))))

\* faulty variant: the std::fmod left out
BootTimeNoFmod(target_second, load_time) ==
    FAdd(FSub(FFromUi(BFromNat(target_second)), load_time), BootOverhead)

\* line 112
BootTimeRaw(target_second, load_time) ==
    FAdd(FMod(FSub(FFromUi(BFromNat(target_second)), load_time), S_PER_MIN),
         BootOverhead)

\* line 115: the loop's condition and its body
\* faulty variant: only negative boot times are adjusted
BelowZero(boot_time) == FLt(boot_time, Zero)

BelowMinBootTime(boot_time) == FLt(boot_time, MIN_BOOT_TIME)

\* faulty variant: the wrong constant is added
AddMinBootTime(boot_time) == FAdd(boot_time, MIN_BOOT_TIME)

AddMinute(boot_time) == FAdd(boot_time, S_PER_MIN)

\* faulty variant: the boot time left out of the total
LoadMinutes(boot_time, load_time) == FDiv(load_time, S_PER_MIN)

\* line 118: the value that is cast to ui8
TotalMinutes(boot_time, load_time) ==
    FDiv(FAdd(boot_time, load_time), S_PER_MIN)

----------------------------------------------------------------------------
(* Inputs.                                                                 *)

MaxDelaySteps == 12
DelayStride == 299
MaxConvDelay == 20000
MaxConvSteps == 400
ConvStride == 24999

\* a grid of calls whose target delay is not before the calibrated delay
GridCalibratedDelays == {0, 1000}

GridTargetDelays ==
    {1000 + DelayStride * k : k \in 0..MaxDelaySteps} \cup {1598, 2000, 600000}

GridCalibratedSeconds == {0, 10, 30, 50, 59}

GridTargetSeconds == {0, 5, 45, 59, 75}

Call(cd, cs, td, ts) ==
    [calibrated_delay |-> cd, calibrated_second |-> cs,
     target_delay |-> td, target_second |-> ts]

Grid ==
    {Call(BFromNat(cd), cs, BFromNat(td), ts) :
        cd \in GridCalibratedDelays, cs \in GridCalibratedSeconds,
        td \in GridTargetDelays, ts \in GridTargetSeconds}

\* calls at the edges: equal delays, a target delay before the calibrated
\* delay, and delays of many hours
EdgeCalls ==
    {Call(BFromNat(2000), 10, BFromNat(1000), 5),
     Call(BFromNat(1000), 30, BFromNat(999), 45),
     Call(BFromNat(1000), 0, BFromNat(999), 0),
     Call(BFromNat(1), 0, BFromNat(0), 59),
     Call(BFromNat(0), 0, BFromNat(0), 0),
     Call(BFromNat(0), 0, BFromNat(0), 45),
     Call(BFromNat(2000), 0, BFromNat(2000), 59),
     Call(BFromNat(0), 0, BFromNat(1000000), 0),
     Call(BFromNat(0), 59, Ui32Max, 59),
     Call(Ui32Max, 0, Ui32Max, 5),
     Call(Ui32Max, 30, BFromNat(0), 45)}

Calls == Grid \cup EdgeCalls

ConvDelays ==
    {BFromNat(d) : d \in 0..MaxConvDelay}
        \cup {BFromNat(ConvStride * k + 1) : k \in 0..MaxConvSteps}
        \cup {Ui32Max}

----------------------------------------------------------------------------
VARIABLES
    debug,                \* whether DEBUG is defined in this build
    t_calibrated_delay, t_calibrated_second, t_target_delay, t_target_second,
    time_data,            \* the TimeData under construction
    iterations,           \* history: executions of the loop body of line 115
    pc,                   \* the statement about to execute
    t_delay,              \* the argument of delay_to_second
    t_second,             \* its result, the argument of second_to_delay
    conv_delay            \* the result of second_to_delay

args == <<debug, t_calibrated_delay, t_calibrated_second, t_target_delay,
          t_target_second>>
conv == <<t_delay, t_second, conv_delay>>
vars == <<args, time_data, iterations, pc, conv>>

TimeData0 == [boot_time |-> Zero, load_time |-> Zero, offset |-> 0]

\* get_time_data is entered; line 103 has initialised time_data
Init ==
    /\ debug \in BOOLEAN
    /\ \E c \in Calls :
           /\ t_calibrated_delay = c.calibrated_delay
           /\ t_calibrated_second = c.calibrated_second
           /\ t_target_delay = c.target_delay
           /\ t_target_second = c.target_second
    /\ time_data = TimeData0
    /\ iterations = 0
    /\ pc = "load_time"
    /\ t_delay = <<>> /\ t_second = Zero /\ conv_delay = <<>>

CalcLoadTime ==
    /\ pc = "load_time"
    /\ time_data' = [time_data EXCEPT !.load_time =
           LoadTime(t_calibrated_delay, t_calibrated_second, t_target_delay)]
    /\ pc' = "assert"
    /\ UNCHANGED <<args, iterations, conv>>

\* line 64: without DEBUG the ASSERT is empty
AssertNoop ==
    /\ pc = "assert" /\ ~debug
    /\ pc' = "boot_time"
    /\ UNCHANGED <<args, time_data, iterations, conv>>

AssertPass ==
    /\ pc = "assert" /\ debug /\ ~AssertBreaks(time_data.load_time)
    /\ pc' = "boot_time"
    /\ UNCHANGED <<args, time_data, iterations, conv>>

AssertBreak ==
    /\ pc = "assert" /\ debug /\ AssertBreaks(time_data.load_time)
    /\ pc' = "debugbreak"
    /\ UNCHANGED <<args, time_data, iterations, conv>>

CalcBootTime ==
    /\ pc = "boot_time"
    /\ time_data' = [time_data EXCEPT !.boot_time =
           BootTimeRaw(t_target_second, time_data.load_time)]
    /\ pc' = "loop"
    /\ UNCHANGED <<args, iterations, conv>>

LoopBody ==
    /\ pc = "loop" /\ BelowMinBootTime(time_data.boot_time)
    /\ time_data' = [time_data EXCEPT !.boot_time = AddMinute(@)]
    /\ iterations' = iterations + 1
    /\ UNCHANGED <<args, pc, conv>>

LoopExit ==
    /\ pc = "loop" /\ ~BelowMinBootTime(time_data.boot_time)
    /\ pc' = "offset"
    /\ UNCHANGED <<args, time_data, iterations, conv>>

CalcOffset ==
    /\ pc = "offset"
    /\ \E v \in CastUnsigned(
                  TotalMinutes(time_data.boot_time, time_data.load_time), 8) :
           time_data' = [time_data EXCEPT !.offset = BToNat(v)]
    /\ pc' = "return"
    /\ UNCHANGED <<args, iterations, conv>>

Return ==
    /\ pc = "return"
    /\ pc' = "returned"
    /\ UNCHANGED <<args, time_data, iterations, conv>>

Next ==
    \/ CalcLoadTime
    \/ AssertNoop
    \/ AssertPass
    \/ AssertBreak
    \/ CalcBootTime
    \/ LoopBody
    \/ LoopExit
    \/ CalcOffset
    \/ Return

Spec == Init /\ [][Next]_vars

----------------------------------------------------------------------------
(* The conversions on their own: second_to_delay(delay_to_second(d)).      *)

InitConv ==
    /\ debug = FALSE
    /\ t_calibrated_delay = <<>> /\ t_calibrated_second = 0
    /\ t_target_delay = <<>> /\ t_target_second = 0
    /\ time_data = TimeData0
    /\ iterations = 0
    /\ pc = "delay_to_second"
    /\ t_delay \in ConvDelays
    /\ t_second = Zero
    /\ conv_delay = <<>>

DelayToSecond ==
    /\ pc = "delay_to_second"
    /\ t_second' = delay_to_second(t_delay)
    /\ pc' = "second_to_delay"
    /\ UNCHANGED <<args, time_data, iterations, t_delay, conv_delay>>

SecondToDelay ==
    /\ pc = "second_to_delay"
    /\ conv_delay' \in second_to_delay(t_second)
    /\ pc' = "converted"
    /\ UNCHANGED <<args, time_data, iterations, t_delay, t_second>>

NextConv == DelayToSecond \/ SecondToDelay

SpecConv == InitConv /\ [][NextConv]_vars

TypeOK ==
    /\ debug \in BOOLEAN
    /\ IsUi32(t_calibrated_delay) /\ IsUi32(t_target_delay) /\ IsUi32(t_delay)
    /\ IsUi32(conv_delay)
    /\ t_calibrated_second \in 0..255 /\ t_target_second \in 0..255
    /\ IsFp64(time_data.boot_time) /\ IsFp64(time_data.load_time)
    /\ IsFp64(t_second)
    /\ time_data.offset \in 0..255
    /\ iterations \in Nat

----------------------------------------------------------------------------
(* Properties.                                                             *)

DInt(n) == IF n < 0 THEN DNeg(DFromNat(-n)) ELSE DFromNat(n)

\* -1, 0, 1 as x < p / q, x = p / q, x > p / q, in exact arithmetic (q > 0)
CmpRatio(x, p, q) == DCmp(DMul(DFromNat(q), x), DInt(p))

SecondsInRange == t_calibrated_second \in 0..59 /\ t_target_second \in 0..59

LoadTimePositive == FLt(Zero, time_data.load_time)

AfterLoop == pc \in {"offset", "return", "returned"}

\* C1: with both seconds in [0,59] and load_time > 0, the boot_time that leaves
\* the normalization loop satisfies 14.0 <= boot_time < 74.0
C1_BootTimeWindow ==
    (AfterLoop /\ SecondsInRange /\ LoadTimePositive)
        => /\ CmpRatio(time_data.boot_time, 14, 1) >= 0
           /\ CmpRatio(time_data.boot_time, 74, 1) < 0

C1_Witness ==
    /\ pc = "returned" /\ SecondsInRange /\ LoadTimePositive
    /\ iterations = 2
    /\ CmpRatio(time_data.boot_time, 70, 1) > 0

\* the cast of line 118 is defined: the whole minutes are at most 255
OffsetRepresentable ==
    BCmp(FTrunc(TotalMinutes(time_data.boot_time, time_data.load_time)),
         BFromNat(255)) <= 0

\* 5 * (boot_time + load_time - (60 * offset + target_second + 0.2)), exact
TargetSecondError ==
    DSub(DMul(DFromNat(5), DAdd(time_data.boot_time, time_data.load_time)),
         DFromNat(300 * time_data.offset + 5 * t_target_second + 1))

\* C2: with target_second in [0,59], load_time > 0 and at most 255 whole
\* minutes, boot_time + load_time = 60 * offset + target_second + 0.2, up to
\* the rounding of the fp64 operations: the two sides differ by at most 2^-30 s
C2_LandsOnTargetSecond ==
    (pc \in {"return", "returned"} /\ t_target_second \in 0..59
         /\ LoadTimePositive /\ OffsetRepresentable)
        => DCmp(DAbs(TargetSecondError), Dy(0, <<5>>, -30)) <= 0

C2_Witness ==
    /\ pc = "returned" /\ t_target_second \in 0..59 /\ LoadTimePositive
    /\ OffsetRepresentable
    /\ time_data.offset >= 2
    /\ iterations >= 1

IsExample3 ==
    /\ t_calibrated_delay = BFromNat(1000) /\ t_calibrated_second = 30
    /\ t_target_delay = BFromNat(1598) /\ t_target_second = 45

\* |x - p / 1000| <= 0.001
WithinMilli(x, p) == CmpRatio(x, p - 1, 1000) >= 0 /\ CmpRatio(x, p + 1, 1000) <= 0

\* C3 as stated: the worked example returns load_time = 39.993 and
\* boot_time = 65.207 (to 0.001 s) after one addition of 60, and offset = 1
C3_AsStated ==
    (pc = "returned" /\ IsExample3)
        => /\ WithinMilli(time_data.load_time, 39993)
           /\ WithinMilli(time_data.boot_time, 65207)
           /\ iterations = 1
           /\ time_data.offset = 1

\* C3 amended: the worked example returns load_time = 39.996 and
\* boot_time = 65.204 (to 0.001 s) after one addition of 60, and offset = 1
C3_WorkedExample ==
    (pc = "returned" /\ IsExample3)
        => /\ WithinMilli(time_data.load_time, 39996)
           /\ WithinMilli(time_data.boot_time, 65204)
           /\ iterations = 1
           /\ time_data.offset = 1

C3_Witness == pc = "returned" /\ IsExample3 /\ time_data.offset = 1

IsExample4 ==
    /\ t_calibrated_delay = BFromNat(2000) /\ t_calibrated_second = 10
    /\ t_target_delay = BFromNat(1000) /\ t_target_second = 5

\* C4: the invalid-input example (target delay before calibrated delay)
\* computes a negative load_time, so load_time > 0.0 is violated for it
C4_NegativeLoadTime ==
    (pc = "assert" /\ IsExample4)
        => /\ CmpRatio(time_data.load_time, 0, 1) < 0
           /\ ~LoadTimePositive

\* C5: with the other inputs fixed, every larger target_delay gives a
\* strictly larger load_time
C5_MonotoneLoadTime ==
    pc = "assert"
        => \A d2 \in {c.target_delay : c \in Calls} :
               BCmp(t_target_delay, d2) = -1
                   => FLt(time_data.load_time,
                          LoadTime(t_calibrated_delay, t_calibrated_second, d2))

ConvRangeMax == BFromNat(10000000)

\* C6: for a delay d in 0..10,000,000, second_to_delay(delay_to_second(d))
\* is d or d - 1
C6_RoundTrip ==
    (pc = "converted" /\ BCmp(t_delay, ConvRangeMax) <= 0)
        => \/ conv_delay = t_delay
           \/ BAdd(conv_delay, <<1>>) = t_delay

C6_Witness ==
    /\ pc = "converted" /\ BCmp(t_delay, ConvRangeMax) <= 0
    /\ BAdd(conv_delay, <<1>>) = t_delay
    /\ BCmp(t_delay, BFromNat(100000)) > 0

\* C7: for seconds in [0,59] the value entering the loop lies strictly between
\* -59.8 and 60.2, and the loop body never runs a third time: the loop ends
\* after at most 2 iterations
C7_LoopBound ==
    SecondsInRange
        => /\ iterations <= 2
           /\ (pc = "loop" /\ iterations = 0)
                  => /\ CmpRatio(time_data.boot_time, -598, 10) > 0
                     /\ CmpRatio(time_data.boot_time, 602, 10) < 0
           /\ (pc = "loop" /\ iterations = 2)
                  => ~BelowMinBootTime(time_data.boot_time)

C7_Witness == SecondsInRange /\ pc = "offset" /\ iterations = 2

\* 'if boot_time < 14.0 then boot_time + 60.0 else boot_time'
ConditionalAdd(x) ==
    IF FLt(x, FLit(14, 1)) THEN FAdd(x, FLit(60, 1)) ELSE x

\* C8 as stated: for seconds in [0,59] the loop's result equals one
\* conditional add applied to the value that entered the loop
C8_AsStated ==
    (pc = "offset" /\ SecondsInRange)
        => time_data.boot_time =
               ConditionalAdd(BootTimeRaw(t_target_second, time_data.load_time))

\* C8 amended: for seconds in [0,59] the loop's result equals the conditional
\* add applied twice in a row to the value that entered the loop, and one
\* conditional add whenever the loop body ran at most once
C8_TwoConditionalAdds ==
    (pc = "offset" /\ SecondsInRange)
        => LET raw == BootTimeRaw(t_target_second, time_data.load_time)
           IN  /\ time_data.boot_time = ConditionalAdd(ConditionalAdd(raw))
               /\ iterations <= 1 => time_data.boot_time = ConditionalAdd(raw)

C8_Witness ==
    /\ pc = "offset" /\ SecondsInRange /\ iterations = 2
    /\ time_data.boot_time #
           ConditionalAdd(BootTimeRaw(t_target_second, time_data.load_time))

\* C9: a DEBUG build stops at the ASSERT, before boot_time is computed, in
\* exactly the calls whose load_time is <= 0.0; a build without DEBUG never
\* stops there, and runs on to the return through at most 2 loop iterations
C9_AssertBehaviour ==
    /\ (debug /\ pc \notin {"load_time", "assert"})
           => (pc = "debugbreak" <=> ~LoadTimePositive)
    /\ pc = "debugbreak"
           => debug /\ time_data.boot_time = Zero /\ iterations = 0
    /\ ~debug
           => /\ pc \in {"load_time", "assert", "boot_time", "loop", "offset",
                         "return", "returned"}
              /\ iterations <= 2

C9_Witness == pc = "debugbreak" /\ debug /\ ~LoadTimePositive

\* C10: load_time is never negative; it is 0.0 exactly when target_delay =
\* calibrated_delay and calibrated_second = 0, the only case in which the
\* ASSERT can stop the call
C10_LoadTimeNeverNegative ==
    LET same == t_target_delay = t_calibrated_delay /\ t_calibrated_second = 0
    IN  /\ pc # "load_time"
            => /\ CmpRatio(time_data.load_time, 0, 1) >= 0
               /\ DIsZero(time_data.load_time) <=> same
               /\ ~LoadTimePositive <=> same
        /\ pc = "debugbreak" => same

C10_Witness ==
    /\ pc = "boot_time"
    /\ BCmp(t_target_delay, t_calibrated_delay) = -1
    /\ LoadTimePositive

====
